---- MODULE Spec2Model ----
(***************************************************************************)
(* Model of baby_main.py: the baby need state machine (check_baby_needs),  *)
(* the button hold tracker (button_pressed_callback,                       *)
(* button_released_callback, check_button_hold) and the action resolver    *)
(* (process_button_action), with the two locks and the three kinds of      *)
(* thread that run them: the GPIO edge-callback thread, one thread per     *)
(* threading.Timer, and the main loop.                                     *)
(*                                                                         *)
(* Time is the integer clock `now` (seconds), which moves in steps of a     *)
(* minute or more.  The statements of one callback all read the same       *)
(* value of time.time(): the clock moves between callbacks only.           *)
(***************************************************************************)
EXTENDS Integers, Sequences, FiniteSets, TLC

\* ---- configuration (baby_main.py lines 9-23) ----
BUTTON_HUNGER_PIN == 17
BUTTON_DIAPER_PIN == 27
HOLD_DURATION_HUNGER == 3 * 60
HOLD_DURATION_DIAPER == 1 * 60
NEWBORN_SLEEP_DURATION_MIN == 2 * 60 * 60
NEWBORN_SLEEP_DURATION_MAX == 4 * 60 * 60
NEWBORN_HUNGER_INTERVAL_MIN == 2 * 60 * 60
NEWBORN_HUNGER_INTERVAL_MAX == 3 * 60 * 60
NEWBORN_DIAPER_INTERVAL_MIN == 1 * 60 * 60
NEWBORN_DIAPER_INTERVAL_MAX == 3 * 60 * 60

\* ---- bounds of the model ----
MaxTimers == 3      \* threading.Timer objects created in one run of SpecTracker
MaxPresses == 1     \* press edges in one run of Spec
MaxAdvances == 2    \* steps of the clock in one run
MaxQueue == 1       \* edges detected whose callback has not finished

\* Python's None, for timestamps and for timer references
None == -1

Channels == {BUTTON_HUNGER_PIN, BUTTON_DIAPER_PIN}
TimerIds == 1..MaxTimers

\* lock owners: nobody, the main loop, the edge-callback thread, or timer i (> 0)
FREE == 0
MAIN == -1
EDGE == -2

\* the amounts by which the clock moves between two steps
ClockSteps == {HOLD_DURATION_DIAPER, HOLD_DURATION_HUNGER, NEWBORN_SLEEP_DURATION_MIN}

\* the values random.uniform(lo, hi) is sampled at: both ends of the range
Uniform(lo, hi) == {lo, hi}

VARIABLES
    now,                       \* time.time()
    nadv,                      \* clock steps taken
    current_baby_state,
    last_fed_time,
    last_diaper_change_time,
    last_sleep_start_time,
    need_start_time,
    button_press_start_times,  \* channel -> timestamp or None
    button_hold_timers,        \* channel -> timer id or None
    state_lock,                \* owner
    button_lock,               \* owner
    gpio,                      \* channel -> "LOW" (pressed) or "HIGH"
    queue,                     \* edges detected, callback not yet finished
    edge_pc,                   \* "idle", or "locked": running the callback of Head(queue)
    main_pc,                   \* "idle" or "locked" (inside check_baby_needs)
    timers,                    \* timer id -> the Timer thread
    ntimers,                   \* Timer objects created so far
    emitted,                   \* events logged by the last step
    drawn                      \* random values drawn by the last step

vars == <<now, nadv, current_baby_state, last_fed_time, last_diaper_change_time,
          last_sleep_start_time, need_start_time, button_press_start_times,
          button_hold_timers, state_lock, button_lock, gpio, queue, edge_pc,
          main_pc, timers, ntimers, emitted, drawn>>

babyVars == <<current_baby_state, last_fed_time, last_diaper_change_time,
              last_sleep_start_time, need_start_time>>
trackVars == <<button_press_start_times, button_hold_timers>>

\* the baby fields as one record, as the functions below read and write them
Baby == [state |-> current_baby_state, fed |-> last_fed_time,
         diaper |-> last_diaper_change_time, sleep |-> last_sleep_start_time,
         need |-> need_start_time]

SetBaby(b) ==
    /\ current_baby_state' = b.state
    /\ last_fed_time' = b.fed
    /\ last_diaper_change_time' = b.diaper
    /\ last_sleep_start_time' = b.sleep
    /\ need_start_time' = b.need

\* no random call was made
NoDraw == [sleep |-> None, hunger |-> None, diaper |-> None]

\* a Timer and what the properties need to know of its press: matched tells
\* whether the baby state was the one its button tends when the press
\* callback ran
NoTimer == [ch |-> 0, pc |-> "unused", start |-> 0, cancelled |-> FALSE,
            released |-> FALSE, early |-> FALSE, failed |-> FALSE,
            confirmed |-> FALSE, matched |-> FALSE]

Init ==
    /\ now = 0
    /\ nadv = 0
    /\ current_baby_state = "SLEEPING"
    /\ last_fed_time = 0
    /\ last_diaper_change_time = 0
    /\ last_sleep_start_time = 0
    /\ need_start_time = None
    /\ button_press_start_times = [c \in Channels |-> None]
    /\ button_hold_timers = [c \in Channels |-> None]
    /\ state_lock = FREE
    /\ button_lock = FREE
    /\ gpio = [c \in Channels |-> "HIGH"]
    /\ queue = <<>>
    /\ edge_pc = "idle"
    /\ main_pc = "idle"
    /\ timers = [i \in TimerIds |-> NoTimer]
    /\ ntimers = 0
    /\ emitted = <<>>
    /\ drawn = NoDraw

\* feed_baby without line 208
feed_baby_keeps_need(b, t) ==
    [b |-> [b EXCEPT !.fed = t, !.sleep = t, !.state = "SLEEPING"],
     ev |-> <<"Need Met", "State:SLEEPING">>]

\* feed_baby that logs the state change before the need-met event
feed_baby_logs_state_first(b, t) ==
    [b |-> [b EXCEPT !.fed = t, !.sleep = t, !.state = "SLEEPING", !.need = None],
     ev |-> <<"State:SLEEPING", "Need Met">>]

\* lines 199-208: the hunger need is met at time t
feed_baby(b, t) ==
    [b |-> [b EXCEPT !.fed = t, !.sleep = t, !.state = "SLEEPING", !.need = None],
     ev |-> <<"Need Met", "State:SLEEPING">>]

\* change_diaper that also restarts the hunger clock
change_diaper_resets_fed(b, t) ==
    [b |-> [b EXCEPT !.diaper = t, !.fed = t, !.sleep = t, !.state = "SLEEPING",
                     !.need = None],
     ev |-> <<"Need Met", "State:SLEEPING">>]

\* lines 215-224: the diaper need is met at time t
change_diaper(b, t) ==
    [b |-> [b EXCEPT !.diaper = t, !.sleep = t, !.state = "SLEEPING", !.need = None],
     ev |-> <<"Need Met", "State:SLEEPING">>]

\* incorrect_action that restarts the "time to tend" clock of an awake baby
incorrect_action_restarts_need(b, t) ==
    [b |-> [b EXCEPT !.need = IF b.state = "SLEEPING" THEN None ELSE t],
     ev |-> <<"Incorrect Action">>]

\* lines 209-212 and 225-228: the hold does not match the need
incorrect_action(b, t) == [b |-> b, ev |-> <<"Incorrect Action">>]

\* lines 197-198 and 213-214: the button of this channel is the one that meets the need of this state
Matches(channel, state) ==
    \/ channel = BUTTON_HUNGER_PIN /\ state = "HUNGRY"
    \/ channel = BUTTON_DIAPER_PIN /\ state = "WET_DIAPER"

\* process_button_action without the tests of lines 198 and 214
process_button_action_unchecked(channel, b, t) ==
    IF channel = BUTTON_HUNGER_PIN THEN feed_baby(b, t) ELSE change_diaper(b, t)

\* process_button_action that meets whichever need is active, on either channel
process_button_action_any_channel(channel, b, t) ==
    IF b.state = "HUNGRY" THEN feed_baby(b, t)
    ELSE IF b.state = "WET_DIAPER" THEN change_diaper(b, t)
    ELSE incorrect_action(b, t)

process_button_action(channel, b, t) ==
    IF channel = BUTTON_HUNGER_PIN
    THEN IF b.state = "HUNGRY" THEN feed_baby(b, t) ELSE incorrect_action(b, t)
    ELSE IF b.state = "WET_DIAPER" THEN change_diaper(b, t) ELSE incorrect_action(b, t)

\* ---- check_baby_needs (lines 231-299), the body under state_lock ----

\* lines 241-256: the baby wakes with a first need drawn by random.random() < 0.5
wake_up(b, t, hungry_first) ==
    [b |-> [b EXCEPT !.state = IF hungry_first THEN "HUNGRY" ELSE "WET_DIAPER",
                     !.need = t],
     ev |-> <<"State:AWAKE",
              IF hungry_first THEN "State:HUNGRY" ELSE "State:WET_DIAPER">>]

\* lines 262-268 and 272-278: the periodic reminder, a log line only
reminder(b, t, period) ==
    [b |-> b,
     ev |-> IF b.need # None /\ t - b.need > 0 /\ (t - b.need) % period = 0
            THEN <<"Need Unmet">> ELSE <<>>]

\* primary_check with > for >= at line 240
primary_check_strict(b, t, sleep_draw, hungry_first) ==
    IF b.state = "SLEEPING"
    THEN IF t - b.sleep > sleep_draw THEN wake_up(b, t, hungry_first)
         ELSE [b |-> b, ev |-> <<>>]
    ELSE IF b.state = "HUNGRY" THEN reminder(b, t, 60)
    ELSE IF b.state = "WET_DIAPER" THEN reminder(b, t, 30)
    ELSE [b |-> b, ev |-> <<>>]

\* lines 238-278: the branch on the state at the start of the tick
primary_check(b, t, sleep_draw, hungry_first) ==
    IF b.state = "SLEEPING"
    THEN IF t - b.sleep >= sleep_draw THEN wake_up(b, t, hungry_first)
         ELSE [b |-> b, ev |-> <<>>]
    ELSE IF b.state = "HUNGRY" THEN reminder(b, t, 60)
    ELSE IF b.state = "WET_DIAPER" THEN reminder(b, t, 30)
    ELSE [b |-> b, ev |-> <<>>]

\* lines 284-290: hunger develops while awake
hunger_onset(b, t, hunger_draw) ==
    IF b.state # "SLEEPING" /\ t - b.fed >= hunger_draw /\ b.state # "HUNGRY"
    THEN [b |-> [b EXCEPT !.state = "HUNGRY",
                          !.need = IF b.need = None THEN t ELSE b.need],
          ev |-> <<"State:HUNGRY">>]
    ELSE [b |-> b, ev |-> <<>>]

\* diaper_onset without the `if need_start_time is None` of line 299
diaper_onset_restarts_clock(b, t, diaper_draw) ==
    IF b.state # "SLEEPING" /\ t - b.diaper >= diaper_draw /\ b.state # "WET_DIAPER"
    THEN [b |-> [b EXCEPT !.state = "WET_DIAPER", !.need = t],
          ev |-> <<"State:WET_DIAPER">>]
    ELSE [b |-> b, ev |-> <<>>]

\* lines 293-299: a wet diaper develops while awake
diaper_onset(b, t, diaper_draw) ==
    IF b.state # "SLEEPING" /\ t - b.diaper >= diaper_draw /\ b.state # "WET_DIAPER"
    THEN [b |-> [b EXCEPT !.state = "WET_DIAPER",
                          !.need = IF b.need = None THEN t ELSE b.need],
          ev |-> <<"State:WET_DIAPER">>]
    ELSE [b |-> b, ev |-> <<>>]

\* check_baby_needs with the diaper check of line 293 under an `else` of the
\* hunger check: it is skipped in a tick in which the hunger onset fired
check_baby_needs_elif(b, t, sleep_draw, hungry_first, hunger_draw, diaper_draw) ==
    LET p1 == primary_check(b, t, sleep_draw, hungry_first)
        p2 == hunger_onset(p1.b, t, hunger_draw)
        p3 == IF p2.ev # <<>> THEN [b |-> p2.b, ev |-> <<>>]
              ELSE diaper_onset(p2.b, t, diaper_draw)
    IN [b |-> p3.b, ev |-> p1.ev \o p2.ev \o p3.ev]

\* check_baby_needs with the diaper check of line 293 ahead of the hunger
\* check of line 284
check_baby_needs_diaper_first(b, t, sleep_draw, hungry_first, hunger_draw, diaper_draw) ==
    LET p1 == primary_check(b, t, sleep_draw, hungry_first)
        p2 == diaper_onset(p1.b, t, diaper_draw)
        p3 == hunger_onset(p2.b, t, hunger_draw)
    IN [b |-> p3.b, ev |-> p1.ev \o p2.ev \o p3.ev]

check_baby_needs(b, t, sleep_draw, hungry_first, hunger_draw, diaper_draw) ==
    LET p1 == primary_check(b, t, sleep_draw, hungry_first)
        p2 == hunger_onset(p1.b, t, hunger_draw)
        p3 == diaper_onset(p2.b, t, diaper_draw)
    IN [b |-> p3.b, ev |-> p1.ev \o p2.ev \o p3.ev]

\* the values of the random.uniform calls this tick reaches: line 240 when
\* the tick starts SLEEPING, lines 284 and 293 when the onset checks run
draws_reached(b, t, sleep_draw, hungry_first, hunger_draw, diaper_draw) ==
    LET p1 == primary_check(b, t, sleep_draw, hungry_first)
    IN [sleep |-> IF b.state = "SLEEPING" THEN sleep_draw ELSE None,
        hunger |-> IF p1.b.state # "SLEEPING" THEN hunger_draw ELSE None,
        diaper |-> IF p1.b.state # "SLEEPING" THEN diaper_draw ELSE None]

\* ---- the main loop (lines 315-317): one call of check_baby_needs ----
\* TickLock that enters the body without waiting for state_lock
TickLock_no_wait ==
    /\ main_pc = "idle"
    /\ state_lock' = MAIN
    /\ main_pc' = "locked"
    /\ emitted' = <<>>
    /\ drawn' = NoDraw
    /\ UNCHANGED <<now, nadv, babyVars, trackVars, button_lock, gpio, queue,
                   edge_pc, timers, ntimers>>

TickLock ==
    /\ main_pc = "idle"
    /\ state_lock = FREE
    /\ state_lock' = MAIN
    /\ main_pc' = "locked"
    /\ emitted' = <<>>
    /\ drawn' = NoDraw
    /\ UNCHANGED <<now, nadv, babyVars, trackVars, button_lock, gpio, queue,
                   edge_pc, timers, ntimers>>

\* the values each random call of one tick can return: a call the tick does
\* not reach (lines 240 and 246 when the baby is awake) draws nothing
SleepDraws(b) ==
    IF b.state = "SLEEPING"
    THEN Uniform(NEWBORN_SLEEP_DURATION_MIN, NEWBORN_SLEEP_DURATION_MAX) ELSE {0}
CoinDraws(b) == IF b.state = "SLEEPING" THEN BOOLEAN ELSE {TRUE}
HungerDraws == Uniform(NEWBORN_HUNGER_INTERVAL_MIN, NEWBORN_HUNGER_INTERVAL_MAX)
DiaperDraws == Uniform(NEWBORN_DIAPER_INTERVAL_MIN, NEWBORN_DIAPER_INTERVAL_MAX)

TickRun ==
    /\ main_pc = "locked"
    /\ \E sleep_draw \in SleepDraws(Baby), hungry_first \in CoinDraws(Baby),
          hunger_draw \in HungerDraws, diaper_draw \in DiaperDraws :
            LET r == check_baby_needs(Baby, now, sleep_draw, hungry_first,
                                      hunger_draw, diaper_draw)
            IN /\ SetBaby(r.b)
               /\ emitted' = r.ev
               /\ drawn' = draws_reached(Baby, now, sleep_draw, hungry_first,
                                         hunger_draw, diaper_draw)
    /\ state_lock' = FREE
    /\ main_pc' = "idle"
    /\ UNCHANGED <<now, nadv, trackVars, button_lock, gpio, queue, edge_pc,
                   timers, ntimers>>

\* ---- the button hold tracker ----

\* lines 130-133 and 165
required_hold(channel) ==
    IF channel = BUTTON_HUNGER_PIN THEN HOLD_DURATION_HUNGER ELSE HOLD_DURATION_DIAPER

\* ---- the clock ----
\* a callback or a tick is between its first and its last statement
Busy ==
    \/ main_pc # "idle"
    \/ edge_pc # "idle"
    \/ queue # <<>>
    \/ \E i \in TimerIds : timers[i].pc \in {"fired", "resolve", "resolving", "clear"}

\* The clock moves in steps far longer than any callback runs: it moves
\* only between callbacks.  A Timer that is still waiting wakes when its
\* interval has passed: the clock does not move past the expiry of a
\* waiting Timer, which first expires (TimerExpire) or is cancelled.
Advance ==
    /\ nadv < MaxAdvances
    /\ ~Busy
    /\ \E d \in ClockSteps :
         /\ \A i \in TimerIds :
               timers[i].pc = "waiting" =>
                   now + d <= timers[i].start + required_hold(timers[i].ch)
         /\ now' = now + d
    /\ nadv' = nadv + 1
    /\ emitted' = <<>>
    /\ drawn' = NoDraw
    /\ UNCHANGED <<babyVars, trackVars, state_lock, button_lock, gpio, queue,
                   edge_pc, main_pc, timers, ntimers>>

\* threading.Timer.cancel(): sets the timer's `finished` event.  A timer still
\* in finished.wait(interval) then never calls its function; one that has
\* already tested `finished` goes on to call it.
cancel(tm, id) ==
    [tm EXCEPT ![id].cancelled = TRUE,
               ![id].pc = IF @ = "waiting" THEN "cancelled" ELSE @]

\* the Timer created by the most recent press callback of a channel, or 0
LatestPress(tm, n, channel) ==
    LET s == {i \in 1..n : tm[i].ch = channel}
    IN IF s = {} THEN 0 ELSE CHOOSE i \in s : \A j \in s : j <= i

\* lines 123-144: the body under button_lock; n Timers exist already.
\* Returns the tracker fields, the timers and the events it leaves.
button_pressed_callback(channel, starts, refs, tm, n, t) ==
    LET tm1 == IF refs[channel] # None THEN cancel(tm, refs[channel]) ELSE tm
        new == [NoTimer EXCEPT !.ch = channel, !.pc = "waiting", !.start = t]
    IN [starts |-> [starts EXCEPT ![channel] = t],
        refs |-> [refs EXCEPT ![channel] = n + 1],
        timers |-> [tm1 EXCEPT ![n + 1] = new],
        ev |-> <<"Button Pressed">>]

\* what a processed release records about the presses of its channel, for the
\* properties only: every Timer of the channel has seen a release; the
\* latest press is marked with whether its Timer was still before its expiry
\* and whether the release reported a failed action
note_release(tm, n, channel, t, failed) ==
    LET p == LatestPress(tm, n, channel)
    IN [i \in TimerIds |->
          IF tm[i].ch # channel THEN tm[i]
          ELSE IF i = p /\ ~tm[i].released
               THEN [tm[i] EXCEPT !.released = TRUE,
                                  !.early = (tm[i].pc = "waiting"
                                             /\ t < tm[i].start + required_hold(channel)),
                                  !.failed = failed]
               ELSE [tm[i] EXCEPT !.released = TRUE]]

\* button_released_callback without line 159
button_released_keeps_ref(channel, starts, refs, tm, n, t) ==
    IF starts[channel] # None
    THEN LET hold_duration == t - starts[channel]
             failed == hold_duration < required_hold(channel)
             tm0 == note_release(tm, n, channel, t, failed)
         IN [starts |-> [starts EXCEPT ![channel] = None],
             refs |-> refs,
             timers |-> IF refs[channel] # None THEN cancel(tm0, refs[channel]) ELSE tm0,
             ev |-> IF failed THEN <<"Button Released", "Action Failed">>
                    ELSE <<"Button Released">>]
    ELSE [starts |-> starts, refs |-> refs,
          timers |-> note_release(tm, n, channel, t, FALSE),
          ev |-> <<"Released No Press">>]

\* button_released_callback that reports a failed action on the bounce path too
button_released_bounce_fails(channel, starts, refs, tm, n, t) ==
    IF starts[channel] # None
    THEN LET hold_duration == t - starts[channel]
             failed == hold_duration < required_hold(channel)
             tm0 == note_release(tm, n, channel, t, failed)
         IN [starts |-> [starts EXCEPT ![channel] = None],
             refs |-> [refs EXCEPT ![channel] = None],
             timers |-> IF refs[channel] # None THEN cancel(tm0, refs[channel]) ELSE tm0,
             ev |-> IF failed THEN <<"Button Released", "Action Failed">>
                    ELSE <<"Button Released">>]
    ELSE [starts |-> starts, refs |-> refs,
          timers |-> note_release(tm, n, channel, t, FALSE),
          ev |-> <<"Released No Press", "Action Failed">>]

\* lines 148-173: the body under button_lock
button_released_callback(channel, starts, refs, tm, n, t) ==
    IF starts[channel] # None
    THEN LET hold_duration == t - starts[channel]
             failed == hold_duration < required_hold(channel)
             tm0 == note_release(tm, n, channel, t, failed)
         IN [starts |-> [starts EXCEPT ![channel] = None],
             refs |-> [refs EXCEPT ![channel] = None],
             timers |-> IF refs[channel] # None THEN cancel(tm0, refs[channel]) ELSE tm0,
             ev |-> IF failed THEN <<"Button Released", "Action Failed">>
                    ELSE <<"Button Released">>]
    ELSE [starts |-> starts, refs |-> refs,
          timers |-> note_release(tm, n, channel, t, FALSE),
          ev |-> <<"Released No Press">>]

\* press edges detected whose callback has not finished
PendingPresses == Cardinality({k \in 1..Len(queue) : queue[k].kind = "press"})

\* GPIO.add_event_detect (lines 110-115): an edge sets the line level and
\* queues its callback.  A falling edge on a line already LOW, or a rising
\* edge on a line already HIGH, is a bounce.  At most `limit` press edges
\* are detected in one run.
EdgeDetect(limit) ==
    /\ Len(queue) < MaxQueue
    /\ \E c \in Channels, k \in {"press", "release"} :
         /\ k = "press" => ntimers + PendingPresses < limit
         /\ gpio' = [gpio EXCEPT ![c] = IF k = "press" THEN "LOW" ELSE "HIGH"]
         /\ queue' = Append(queue, [kind |-> k, ch |-> c])
    /\ emitted' = <<>>
    /\ drawn' = NoDraw
    /\ UNCHANGED <<now, nadv, babyVars, trackVars, state_lock, button_lock,
                   edge_pc, main_pc, timers, ntimers>>

\* the callback thread enters `with button_lock` for the oldest edge
EdgeLock ==
    /\ queue # <<>>
    /\ edge_pc = "idle"
    /\ button_lock = FREE
    /\ button_lock' = EDGE
    /\ edge_pc' = "locked"
    /\ emitted' = <<>>
    /\ drawn' = NoDraw
    /\ UNCHANGED <<now, nadv, babyVars, trackVars, state_lock, gpio, queue,
                   main_pc, timers, ntimers>>

\* PressRun that leaves `with button_lock` without releasing the lock
PressRun_keeps_lock ==
    /\ edge_pc = "locked"
    /\ Head(queue).kind = "press"
    /\ LET r == button_pressed_callback(Head(queue).ch, button_press_start_times,
                                        button_hold_timers, timers, ntimers, now)
       IN /\ button_press_start_times' = r.starts
          /\ button_hold_timers' = r.refs
          /\ timers' = [r.timers EXCEPT ![ntimers + 1].matched =
                                    Matches(Head(queue).ch, current_baby_state)]
          /\ emitted' = r.ev
          /\ drawn' = NoDraw
    /\ ntimers' = ntimers + 1
    /\ button_lock' = button_lock
    /\ edge_pc' = "idle"
    /\ queue' = Tail(queue)
    /\ UNCHANGED <<now, nadv, babyVars, state_lock, gpio, main_pc>>

PressRun ==
    /\ edge_pc = "locked"
    /\ Head(queue).kind = "press"
    /\ LET r == button_pressed_callback(Head(queue).ch, button_press_start_times,
                                        button_hold_timers, timers, ntimers, now)
       IN /\ button_press_start_times' = r.starts
          /\ button_hold_timers' = r.refs
          /\ timers' = [r.timers EXCEPT ![ntimers + 1].matched =
                                    Matches(Head(queue).ch, current_baby_state)]
          /\ emitted' = r.ev
          /\ drawn' = NoDraw
    /\ ntimers' = ntimers + 1
    /\ button_lock' = FREE
    /\ edge_pc' = "idle"
    /\ queue' = Tail(queue)
    /\ UNCHANGED <<now, nadv, babyVars, state_lock, gpio, main_pc>>

ReleaseRun ==
    /\ edge_pc = "locked"
    /\ Head(queue).kind = "release"
    /\ LET r == button_released_callback(Head(queue).ch, button_press_start_times,
                                         button_hold_timers, timers, ntimers, now)
       IN /\ button_press_start_times' = r.starts
          /\ button_hold_timers' = r.refs
          /\ timers' = r.timers
          /\ emitted' = r.ev
          /\ drawn' = NoDraw
    /\ button_lock' = FREE
    /\ edge_pc' = "idle"
    /\ queue' = Tail(queue)
    /\ UNCHANGED <<now, nadv, babyVars, state_lock, gpio, main_pc, ntimers>>

\* ---- one threading.Timer thread (line 143) and check_button_hold ----

\* finished.wait(interval) times out and `finished` is found unset
TimerExpire(i) ==
    /\ timers[i].pc = "waiting"
    /\ now >= timers[i].start + required_hold(timers[i].ch)
    /\ timers' = [timers EXCEPT ![i].pc = "fired"]
    /\ emitted' = <<>>
    /\ drawn' = NoDraw
    /\ UNCHANGED <<now, nadv, babyVars, trackVars, state_lock, button_lock, gpio,
                   queue, edge_pc, main_pc, ntimers>>

\* lines 182-189: the line is read; LOW calls process_button_action
check_button_hold(level) ==
    IF level = "LOW"
    THEN [pc |-> "resolve", confirmed |-> TRUE, ev |-> <<>>]
    ELSE [pc |-> "clear", confirmed |-> FALSE, ev |-> <<"Timer Already Released">>]

\* TimerLock with button_lock released again before process_button_action
\* is called and line 190 runs
TimerLock_unlocked(i) ==
    /\ timers[i].pc = "fired"
    /\ button_lock = FREE
    /\ button_lock' = FREE
    /\ LET r == check_button_hold(gpio[timers[i].ch])
       IN /\ timers' = [timers EXCEPT ![i].pc = r.pc, ![i].confirmed = r.confirmed]
          /\ emitted' = r.ev
          /\ drawn' = NoDraw
    /\ UNCHANGED <<now, nadv, babyVars, trackVars, state_lock, gpio, queue,
                   edge_pc, main_pc, ntimers>>

\* lines 180-189: the callback enters `with button_lock` and reads the line
TimerLock(i) ==
    /\ timers[i].pc = "fired"
    /\ button_lock = FREE
    /\ button_lock' = i
    /\ LET r == check_button_hold(gpio[timers[i].ch])
       IN /\ timers' = [timers EXCEPT ![i].pc = r.pc, ![i].confirmed = r.confirmed]
          /\ emitted' = r.ev
          /\ drawn' = NoDraw
    /\ UNCHANGED <<now, nadv, babyVars, trackVars, state_lock, gpio, queue,
                   edge_pc, main_pc, ntimers>>

\* line 196, reached with button_lock held
ResolveLock(i) ==
    /\ timers[i].pc = "resolve"
    /\ state_lock = FREE
    /\ state_lock' = i
    /\ timers' = [timers EXCEPT ![i].pc = "resolving"]
    /\ emitted' = <<>>
    /\ drawn' = NoDraw
    /\ UNCHANGED <<now, nadv, babyVars, trackVars, button_lock, gpio, queue,
                   edge_pc, main_pc, ntimers>>

\* lines 197-228
ResolveRun(i) ==
    /\ timers[i].pc = "resolving"
    /\ LET r == process_button_action(timers[i].ch, Baby, now)
       IN /\ SetBaby(r.b)
          /\ emitted' = r.ev
          /\ drawn' = NoDraw
    /\ state_lock' = FREE
    /\ timers' = [timers EXCEPT ![i].pc = "clear"]
    /\ UNCHANGED <<now, nadv, trackVars, button_lock, gpio, queue, edge_pc,
                   main_pc, ntimers>>

\* line 190: the reference of the channel after check_button_hold
\* line 190 left out: the reference of the finished Timer stays
cleared_ref_kept(refs, channel) == refs

cleared_ref(refs, channel) == [refs EXCEPT ![channel] = None]

\* line 190 and the end of `with button_lock`
TimerClear(i) ==
    /\ timers[i].pc = "clear"
    /\ button_hold_timers' = cleared_ref(button_hold_timers, timers[i].ch)
    /\ button_lock' = FREE
    /\ timers' = [timers EXCEPT ![i].pc = "done"]
    /\ emitted' = <<>>
    /\ drawn' = NoDraw
    /\ UNCHANGED <<now, nadv, babyVars, button_press_start_times, state_lock, gpio,
                   queue, edge_pc, main_pc, ntimers>>

Next ==
    \/ Advance
    \/ TickLock
    \/ TickRun
    \/ EdgeDetect(MaxPresses)
    \/ EdgeLock
    \/ PressRun
    \/ ReleaseRun
    \/ \E i \in TimerIds : TimerExpire(i)
    \/ \E i \in TimerIds : TimerLock(i)
    \/ \E i \in TimerIds : ResolveLock(i)
    \/ \E i \in TimerIds : ResolveRun(i)
    \/ \E i \in TimerIds : TimerClear(i)

Spec == Init /\ [][Next]_vars

\* Fair scheduling of the threads: a thread that can run its next statement
\* runs it, and a thread waiting in `with state_lock` or `with button_lock`
\* gets the lock if it is free again and again. Nothing obliges a button edge,
\* a timer expiry, a new call of check_baby_needs or the clock.
Fairness ==
    /\ WF_vars(TickRun)
    /\ SF_vars(EdgeLock)
    /\ WF_vars(PressRun)
    /\ WF_vars(ReleaseRun)
    /\ \A i \in TimerIds :
        /\ SF_vars(TimerLock(i))
        /\ SF_vars(ResolveLock(i))
        /\ WF_vars(ResolveRun(i))
        /\ WF_vars(TimerClear(i))

SpecFair == Init /\ [][Next]_vars /\ Fairness

\* The tracker, its timers and the resolver they call, without the main
\* loop: check_baby_needs reads and writes no tracker field, and the tracker
\* reads no baby field.
NextTracker ==
    \/ Advance
    \/ EdgeDetect(MaxTimers)
    \/ EdgeLock
    \/ PressRun
    \/ ReleaseRun
    \/ \E i \in TimerIds : TimerExpire(i)
    \/ \E i \in TimerIds : TimerLock(i)
    \/ \E i \in TimerIds : ResolveLock(i)
    \/ \E i \in TimerIds : ResolveRun(i)
    \/ \E i \in TimerIds : TimerClear(i)

SpecTracker == Init /\ [][NextTracker]_vars

\* ---- the steps the properties are about ----

\* this step is the body of check_baby_needs
IsTick == main_pc = "locked" /\ main_pc' = "idle"

\* this step is the body of process_button_action, called by timer i
IsResolve(i) == timers[i].pc = "resolving" /\ timers'[i].pc = "clear"

LastTimesUnchanged ==
    /\ last_fed_time' = last_fed_time
    /\ last_diaper_change_time' = last_diaper_change_time
    /\ last_sleep_start_time' = last_sleep_start_time

\* an onset event of lines 288 or 297 is in the events of a tick: a need
\* event that does not follow the waking event
SecondaryOnset(ev) ==
    \E k \in 1..Len(ev) :
        /\ ev[k] \in {"State:HUNGRY", "State:WET_DIAPER"}
        /\ (k = 1 \/ ev[k - 1] # "State:AWAKE")

\* ---- properties ----

\* C1: whenever no operation holds the state lock, need_start_time is set
\* if and only if the baby is not SLEEPING; and need_start_time is set
\* whenever the resolver is about to compute time_to_tend.
NeedStartIffAwake ==
    /\ state_lock = FREE =>
         ((need_start_time # None) <=> (current_baby_state # "SLEEPING"))
    /\ \A i \in TimerIds :
         (/\ timers[i].pc = "resolving"
          /\ current_baby_state =
               (IF timers[i].ch = BUTTON_HUNGER_PIN THEN "HUNGRY" ELSE "WET_DIAPER"))
           => need_start_time # None

\* C1 witness: a need was met and the baby is asleep again, the lock free
NeedClearedAfterFeeding ==
    /\ state_lock = FREE
    /\ current_baby_state = "SLEEPING"
    /\ need_start_time = None
    /\ last_sleep_start_time > 0
    /\ \E i \in TimerIds : timers[i].pc \in {"clear", "done"} /\ timers[i].confirmed

ExactlyOneOutcome ==
    \A i \in TimerIds :
        (timers[i].released /\ timers[i].pc \in {"done", "cancelled"})
          => (timers[i].failed # timers[i].confirmed)

\* C4: each channel has at most one timer that was armed and was neither
\* cancelled nor has started its callback.
AtMostOnePendingTimer ==
    \A c \in Channels :
        Cardinality({i \in TimerIds : /\ timers[i].ch = c
                                      /\ timers[i].pc \in {"waiting", "fired"}
                                      /\ ~timers[i].cancelled}) <= 1

\* C5: a timer callback confirms a hold only if no release of its channel
\* was processed since the press that armed the timer.
NoConfirmAfterRelease ==
    [][\A i \in TimerIds :
          (timers'[i].confirmed /\ ~timers[i].confirmed) => ~timers[i].released]_vars

\* C6: a hold of the Hunger button confirmed while HUNGRY sets SLEEPING,
\* last_fed_time and last_sleep_start_time to the time of the call and
\* need_start_time to None, and keeps last_diaper_change_time; the same for
\* Diaper while WET_DIAPER, with last_diaper_change_time set and last_fed_time kept.
ResolveMeetsNeed ==
    [][\A i \in TimerIds : IsResolve(i) =>
          /\ (timers[i].ch = BUTTON_HUNGER_PIN /\ current_baby_state = "HUNGRY") =>
                /\ current_baby_state' = "SLEEPING"
                /\ last_fed_time' = now
                /\ last_sleep_start_time' = now
                /\ need_start_time' = None
                /\ last_diaper_change_time' = last_diaper_change_time
          /\ (timers[i].ch = BUTTON_DIAPER_PIN /\ current_baby_state = "WET_DIAPER") =>
                /\ current_baby_state' = "SLEEPING"
                /\ last_diaper_change_time' = now
                /\ last_sleep_start_time' = now
                /\ need_start_time' = None
                /\ last_fed_time' = last_fed_time]_vars

\* C6 witness: the resolver has just changed a diaper at a time later than
\* the last feeding
DiaperJustChanged ==
    /\ \E i \in TimerIds : timers[i].pc = "clear" /\ timers[i].ch = BUTTON_DIAPER_PIN
    /\ emitted = <<"Need Met", "State:SLEEPING">>
    /\ last_diaper_change_time = now
    /\ last_fed_time < now

\* C7: a confirmed hold that does not match the baby state logs an
\* "incorrect action" event and changes no baby field.
ResolveMismatchChangesNothing ==
    [][\A i \in TimerIds :
          (/\ IsResolve(i)
           /\ current_baby_state #
                (IF timers[i].ch = BUTTON_HUNGER_PIN THEN "HUNGRY" ELSE "WET_DIAPER"))
            => (emitted' = <<"Incorrect Action">> /\ UNCHANGED babyVars)]_vars

\* C7 witness: the Diaper hold was confirmed while the baby was HUNGRY for
\* some time
IncorrectWhileHungry ==
    /\ \E i \in TimerIds : timers[i].pc = "clear" /\ timers[i].ch = BUTTON_DIAPER_PIN
    /\ emitted = <<"Incorrect Action">>
    /\ current_baby_state = "HUNGRY"
    /\ need_start_time < now

\* C8: a press released while its hold timer was still before its expiry
\* was reported as "hold too short", has its timer cancelled, and never
\* confirms a hold.
EarlyReleaseCancels ==
    \A i \in TimerIds :
        timers[i].early =>
            (timers[i].failed /\ timers[i].cancelled /\ ~timers[i].confirmed)

\* C9: a tick that starts SLEEPING with the elapsed sleep at or above the
\* drawn threshold ends HUNGRY or WET_DIAPER with need_start_time the time
\* of the tick; with the elapsed sleep below the threshold it changes no
\* baby field.
TickWakesAtThreshold ==
    [][(IsTick /\ current_baby_state = "SLEEPING") =>
          IF now - last_sleep_start_time >= drawn'.sleep
          THEN /\ current_baby_state' \in {"HUNGRY", "WET_DIAPER"}
               /\ need_start_time' = now
          ELSE UNCHANGED babyVars]_vars

\* C9 witness: the baby has just woken exactly at the drawn threshold
WokeAtThreshold ==
    /\ Len(emitted) >= 2
    /\ emitted[1] = "State:AWAKE"
    /\ need_start_time = now
    /\ now - last_sleep_start_time = drawn.sleep

\* C10: a tick in which a secondary need onset fires changes the baby state
\* only: need_start_time keeps the time of the original onset (the time of
\* this tick if the baby woke in it) and the last_* times are unchanged.
SecondaryOnsetKeepsClock ==
    [][(IsTick /\ SecondaryOnset(emitted')) =>
          /\ need_start_time' =
               (IF current_baby_state = "SLEEPING" THEN now ELSE need_start_time)
          /\ LastTimesUnchanged]_vars

\* C10 witness: a diaper onset has just overwritten HUNGRY, the need clock
\* still that of the hunger onset
DiaperOverwroteHungry ==
    /\ Len(emitted) >= 1
    /\ emitted[Len(emitted)] = "State:WET_DIAPER"
    /\ SecondaryOnset(emitted)
    /\ drawn.sleep = None
    /\ current_baby_state = "WET_DIAPER"
    /\ need_start_time < now

\* the state-change events among the events of one call
StateChanges(ev) ==
    SelectSeq(ev, LAMBDA e : e \in {"State:AWAKE", "State:HUNGRY", "State:WET_DIAPER",
                                    "State:SLEEPING"})

\* the last step was the body of check_baby_needs: a tick reaches the draw
\* of line 240 or those of lines 284 and 293, no other step draws
JustTicked == drawn # NoDraw

\* a second call of check_baby_needs right after a tick, at the same clock
\* value and with the draws the tick made; a draw the tick did not reach is
\* one the second call does not reach either
SecondTick(hungry_first) ==
    check_baby_needs(Baby, now,
                     IF drawn.sleep = None THEN NEWBORN_SLEEP_DURATION_MIN ELSE drawn.sleep,
                     hungry_first,
                     IF drawn.hunger = None THEN NEWBORN_HUNGER_INTERVAL_MIN ELSE drawn.hunger,
                     IF drawn.diaper = None THEN NEWBORN_DIAPER_INTERVAL_MIN ELSE drawn.diaper)

\* C11 as claimed: with the same clock value and the same draws, a second
\* call of check_baby_needs leaves the baby fields the first call left and
\* makes no state transition.
SecondTickDoesNothing ==
    JustTicked => \A hungry_first \in BOOLEAN :
        LET again == SecondTick(hungry_first)
        IN /\ again.b = Baby
           /\ StateChanges(again.ev) = <<>>

\* C11 as amended: the second call leaves the baby fields the first call
\* left; the only transitions it can make are the pair HUNGRY, then
\* WET_DIAPER again, when the first call ended WET_DIAPER with the hunger
\* condition true as well.
TickTwiceIsTickOnce ==
    JustTicked => \A hungry_first \in BOOLEAN :
        LET again == SecondTick(hungry_first)
            changes == StateChanges(again.ev)
        IN /\ again.b = Baby
           /\ \/ changes = <<>>
              \/ /\ changes = <<"State:HUNGRY", "State:WET_DIAPER">>
                 /\ current_baby_state = "WET_DIAPER"
                 /\ now - last_fed_time >= drawn.hunger
                 /\ now - last_diaper_change_time >= drawn.diaper

\* C11 witness: a tick has just ended WET_DIAPER with both onset conditions
\* true; a second call with its draws sets HUNGRY, then WET_DIAPER again
SecondTickFlipsBack ==
    /\ drawn.hunger # None
    /\ now - last_fed_time >= drawn.hunger
    /\ now - last_diaper_change_time >= drawn.diaper
    /\ current_baby_state = "WET_DIAPER"
    /\ LET again == check_baby_needs(Baby, now, NEWBORN_SLEEP_DURATION_MIN, TRUE,
                                     drawn.hunger, drawn.diaper)
       IN /\ again.b = Baby
          /\ \E k \in 1..Len(again.ev) : again.ev[k] = "State:HUNGRY"

\* C12 as claimed: a timer callback that waits for or holds the state lock
\* does not hold the button lock.
ButtonLockFreeInResolver ==
    \A i \in TimerIds : timers[i].pc \in {"resolve", "resolving"} => button_lock # i

\* C12 as amended: the timer callback keeps the button lock while it waits
\* for and holds the state lock; the button lock is always the first of the
\* two: whoever holds the state lock is the main loop, which takes no button
\* lock, or a timer callback that already holds the button lock.
ButtonLockBeforeStateLock ==
    /\ \A i \in TimerIds : timers[i].pc \in {"resolve", "resolving"} => button_lock = i
    /\ state_lock # EDGE
    /\ \A i \in TimerIds : state_lock = i => (timers[i].pc = "resolving" /\ button_lock = i)
    /\ state_lock = MAIN => (main_pc = "locked" /\ button_lock # MAIN)

\* C12 witness: a timer callback holds both locks
TimerHoldsBothLocks == \E i \in TimerIds : state_lock = i /\ button_lock = i

\* C13: under fair scheduling every edge callback that was queued, every
\* timer callback that started, every resolver call and every tick runs to
\* its end, and whoever holds a lock gives it back. A timer callback takes
\* its locks after "fired" and its resolver call lies between "fired" and
\* "done".
EveryOperationCompletes ==
    /\ (queue # <<>> /\ edge_pc = "idle") ~> (edge_pc = "locked")
    /\ (edge_pc = "locked") ~> (edge_pc = "idle" /\ button_lock # EDGE)
    /\ (main_pc = "locked") ~> (main_pc = "idle" /\ state_lock # MAIN)
    /\ \A i \in TimerIds :
        (timers[i].pc = "fired") ~> (timers[i].pc = "done" /\ button_lock # i /\ state_lock # i)

\* C13 witness: all three threads are in an operation at once: the timer
\* callback holds the button lock and waits for the state lock, which the
\* tick holds, and an edge callback waits for the button lock
AllThreadsContend ==
    \E i \in TimerIds :
        /\ timers[i].pc = "resolve"
        /\ button_lock = i
        /\ state_lock = MAIN
        /\ queue # <<>>

\* C14: the body of check_baby_needs and the body of process_button_action
\* are never both in progress: each runs exactly while its thread holds
\* state_lock, the baby fields change only in a step of the lock holder, and
\* the resolver updates the very fields it tested.
TickAndResolveExclusive ==
    [][/\ ~(main_pc = "locked" /\ \E i \in TimerIds : timers[i].pc = "resolving")
       /\ (main_pc = "locked") <=> (state_lock = MAIN)
       /\ \A i \in TimerIds : (timers[i].pc = "resolving") <=> (state_lock = i)
       /\ \A i, j \in TimerIds :
            (timers[i].pc = "resolving" /\ timers[j].pc = "resolving") => i = j
       /\ (babyVars' # babyVars) =>
            \/ IsTick /\ state_lock = MAIN
            \/ \E i \in TimerIds : IsResolve(i) /\ state_lock = i
       /\ \A i \in TimerIds : IsResolve(i) =>
            Baby' = process_button_action(timers[i].ch, Baby, now).b
      ]_vars

\* C14 witness: the tick is inside its critical section while a timer
\* callback for the matching channel waits to enter the resolver
TickHoldsResolverWaits ==
    /\ main_pc = "locked"
    /\ current_baby_state = "HUNGRY"
    /\ \E i \in TimerIds : timers[i].pc = "resolve" /\ timers[i].ch = BUTTON_HUNGER_PIN

\* C15: in the events of a step, every "need met" event is followed at once
\* by the state change to SLEEPING of the same transition, every state change
\* to SLEEPING comes right after a "need met" event, and the step that emits
\* them is the one that put the baby to sleep.
NeedMetBeforeSleeping ==
    /\ \A k \in 1..Len(emitted) :
        emitted[k] = "Need Met" => (k < Len(emitted) /\ emitted[k + 1] = "State:SLEEPING")
    /\ \A k \in 1..Len(emitted) :
        emitted[k] = "State:SLEEPING" => (k > 1 /\ emitted[k - 1] = "Need Met")
    /\ (\E k \in 1..Len(emitted) : emitted[k] \in {"Need Met", "State:SLEEPING"}) =>
        (current_baby_state = "SLEEPING" /\ last_sleep_start_time = now)

\* C15 witness: a hold of the hunger button has just fed the hungry baby
HungerJustFed ==
    /\ \E i \in TimerIds : timers[i].pc = "clear" /\ timers[i].ch = BUTTON_HUNGER_PIN
    /\ emitted = <<"Need Met", "State:SLEEPING">>
    /\ last_fed_time = now
    /\ last_diaper_change_time < now

\* C16: a tick that reaches the onset checks (the baby is awake after the
\* sleep branch, woken in this tick or earlier) and in which the time since
\* the last diaper change has reached the diaper draw ends in WET_DIAPER,
\* whatever the hunger check did before.
DiaperOnsetWins ==
    [][(/\ IsTick
        /\ drawn'.diaper # None
        /\ now - last_diaper_change_time >= drawn'.diaper)
       => current_baby_state' = "WET_DIAPER"]_vars

\* C16 witness: the baby woke hungry and the diaper check of the same tick
\* overwrote HUNGRY
WokeHungryEndedWet ==
    /\ emitted = <<"State:AWAKE", "State:HUNGRY", "State:WET_DIAPER">>
    /\ drawn.sleep # None
    /\ drawn.diaper # None
    /\ now - last_diaper_change_time >= drawn.diaper
    /\ current_baby_state = "WET_DIAPER"

\* this step is the body of an edge callback, press or release
IsEdgeCallback == edge_pc = "locked" /\ edge_pc' = "idle"

\* C17: the baby goes to SLEEPING only in the resolver call of a timer
\* callback that confirmed a hold, on the channel that matches the state the
\* baby was in; check_baby_needs never sets SLEEPING, and the press and
\* release callbacks change no baby field.
SleepOnlyByMatchingHold ==
    [][/\ (current_baby_state # "SLEEPING" /\ current_baby_state' = "SLEEPING") =>
            \E i \in TimerIds :
                /\ IsResolve(i)
                /\ timers[i].confirmed
                /\ \/ timers[i].ch = BUTTON_HUNGER_PIN /\ current_baby_state = "HUNGRY"
                   \/ timers[i].ch = BUTTON_DIAPER_PIN /\ current_baby_state = "WET_DIAPER"
       /\ IsTick => (current_baby_state' = "SLEEPING" => UNCHANGED babyVars)
       /\ IsEdgeCallback => UNCHANGED babyVars
      ]_vars

\* C17 witness: a confirmed hold put the baby back to sleep, and the release
\* processed afterwards left it asleep
AsleepAfterHoldAndRelease ==
    /\ current_baby_state = "SLEEPING"
    /\ last_sleep_start_time > 0
    /\ emitted = <<"Button Released">>
    /\ \E i \in TimerIds : timers[i].pc = "done" /\ timers[i].confirmed /\ timers[i].released

\* this step is the last one of check_button_hold, run by timer i
IsTimerClear(i) == timers[i].pc = "clear" /\ timers'[i].pc = "done"

\* this step is the body of button_released_callback
IsRelease == IsEdgeCallback /\ Head(queue).kind = "release"

\* C18 as claimed: the end of the timer callback leaves both the timer
\* reference and the press start time of its channel cleared.
TimerFireClearsBoth ==
    [][\A i \in TimerIds : IsTimerClear(i) =>
          /\ button_hold_timers'[timers[i].ch] = None
          /\ button_press_start_times'[timers[i].ch] = None]_vars

\* C18 as amended: the end of the timer callback clears the timer reference
\* of its channel and leaves the press start times alone, as does every step
\* that is not an edge callback; the press start time of a hold not yet
\* released is still set, and the release that finds it set takes the
\* "button released" path and clears it.
TimerFireClearsRefOnly ==
    [][/\ \A i \in TimerIds : IsTimerClear(i) =>
            /\ button_hold_timers'[timers[i].ch] = None
            /\ UNCHANGED button_press_start_times
            /\ ~timers[i].released => button_press_start_times[timers[i].ch] # None
       /\ ~IsEdgeCallback => UNCHANGED button_press_start_times
       /\ (IsRelease /\ button_press_start_times[Head(queue).ch] # None) =>
            /\ emitted'[1] = "Button Released"
            /\ button_press_start_times'[Head(queue).ch] = None
      ]_vars

\* C18 witness: a hold was confirmed and its timer callback has finished;
\* the button is still down, the reference is cleared, the press start time
\* is still set
HoldConfirmedPressOpen ==
    \E i \in TimerIds :
        /\ timers[i].pc = "done"
        /\ timers[i].confirmed
        /\ ~timers[i].released
        /\ button_hold_timers[timers[i].ch] = None
        /\ button_press_start_times[timers[i].ch] # None

\* C19: a release callback that finds no press start time for its channel
\* logs the bounce event and nothing else, leaves the press start times and
\* timer references of both channels and every baby field as they were,
\* cancels, starts and confirms no timer, and takes no state lock.
BounceReleaseOnlyLogs ==
    [][(IsRelease /\ button_press_start_times[Head(queue).ch] = None) =>
          /\ emitted' = <<"Released No Press">>
          /\ UNCHANGED <<trackVars, babyVars, state_lock, ntimers>>
          /\ \A i \in TimerIds :
                /\ timers'[i].pc = timers[i].pc
                /\ timers'[i].cancelled = timers[i].cancelled
                /\ timers'[i].confirmed = timers[i].confirmed
                /\ timers'[i].failed = timers[i].failed
      ]_vars

\* C19 witness: a release edge with no press on record has just been
\* processed while the baby waits for care
BounceReleaseWhileAwake ==
    /\ emitted = <<"Released No Press">>
    /\ current_baby_state # "SLEEPING"
    /\ \A c \in Channels : button_press_start_times[c] = None

\* C20 as claimed: a hold whose button matched the baby state when it was
\* pressed, and which no release has ended when its timer callback reaches
\* the resolver, meets the need and puts the baby to sleep.
HeldMatchingPressMeetsNeed ==
    [][\A i \in TimerIds :
          (IsResolve(i) /\ ~timers[i].released
                        /\ timers[i].matched) =>
             /\ emitted' = <<"Need Met", "State:SLEEPING">>
             /\ current_baby_state' = "SLEEPING"]_vars

\* C20 as amended: such a hold meets the need exactly when the baby state
\* still matches the button at the time the resolver runs; otherwise it ends
\* as an "incorrect action" and changes no baby field.  What un-matches a
\* state in between is a tick whose onset check sets the other need, or
\* another hold that met the need; a tick never ends a need.
HeldMatchingPressMeetsNeedIfStill ==
    [][/\ \A i \in TimerIds :
            (IsResolve(i) /\ ~timers[i].released
                          /\ timers[i].matched) =>
               IF Matches(timers[i].ch, current_baby_state)
               THEN /\ emitted' = <<"Need Met", "State:SLEEPING">>
                    /\ current_baby_state' = "SLEEPING"
               ELSE /\ emitted' = <<"Incorrect Action">>
                    /\ UNCHANGED babyVars
       /\ (IsTick /\ current_baby_state \in {"HUNGRY", "WET_DIAPER"}) =>
            current_baby_state' \in {"HUNGRY", "WET_DIAPER"}
      ]_vars

\* C20 witness: the hunger button was pressed while the baby was hungry and
\* held until its timer fired; a tick in between made the diaper wet, and
\* the hold has just ended as an incorrect action
HungerHoldLostToDiaper ==
    \E i \in TimerIds :
        /\ timers[i].pc = "clear"
        /\ timers[i].ch = BUTTON_HUNGER_PIN
        /\ timers[i].matched
        /\ timers[i].confirmed
        /\ ~timers[i].released
        /\ emitted = <<"Incorrect Action">>
        /\ current_baby_state = "WET_DIAPER"
====
